---- MODULE Spec2Model ----
(***************************************************************************)
(* The support-ticket RAG pipeline of backend/src: the ticket loader       *)
(* (data_loader.py), the embedding generator (embeddings.py), the index    *)
(* manager (chroma_index.py) and the query engine (rag_query.py).          *)
(*                                                                         *)
(* Python values are tagged records.  A text is a sequence of characters;  *)
(* a fixed message of the source is written as a one-token text.  The      *)
(* vector index, the embedding model and the generative model are external *)
(* collaborators: each call to one of them nondeterministically raises or  *)
(* answers.                                                                *)
(***************************************************************************)
EXTENDS Integers, Sequences, FiniteSets, TLC

VARIABLES
    source,          \* the file at TICKETS_JSON
    GOOGLE_API_KEY,  \* config.GOOGLE_API_KEY: TRUE when a key is configured
    collection,      \* the persisted ChromaDB collection: a sequence of entries
    model_cache,     \* embeddings._model_cache
    constructor_calls, \* the outcomes of the SentenceTransformer(...) calls so far
    frame            \* frame[t]: the call thread t is executing, and its position

vars == <<source, GOOGLE_API_KEY, collection, model_cache, constructor_calls, frame>>

(* ------------------------------- bounds -------------------------------- *)

\* queries and model responses are texts of at most MaxLen characters
MaxLen == 1
\* a requested k exceeds MAX_TOP_K by at most MaxOver; the largest ticket
\* file holds MAX_TOP_K + MaxOver tickets
MaxOver == 1
\* the metadata of each of the first MaxBadPos hits of a k-NN answer may be missing or partial
MaxBadPos == 2
\* a ticket file of the loader specification holds at most MaxEntries entries
MaxEntries == 3
\* the construction of the embedding model fails at most MaxConstructorFailures times
MaxConstructorFailures == 1
\* get_embeddings is called with at most MaxTickets tickets
MaxTickets == 2

(* ------------------------- program constants --------------------------- *)

MAX_TOP_K == 10
DEFAULT_TOP_K == 5
\* the characters of a snippet build_rag_prompt shows
DESCRIPTION_LIMIT == 200

Procs == {1, 2}

(* --------------------------- Python values ----------------------------- *)

PyNone == [type |-> "NoneType"]
PyStr(s) == [type |-> "str", val |-> s]
PyInt(n) == [type |-> "int", val |-> n]
PyList(l) == [type |-> "list", val |-> l]
PyDict(d) == [type |-> "dict", val |-> d]

Max(a, b) == IF a >= b THEN a ELSE b
Min(a, b) == IF a <= b THEN a ELSE b

IsSpace(c) == c \in {" ", "\t", "\n"}

RECURSIVE lstrip(_)
lstrip(s) ==
    IF s = <<>> THEN <<>>
    ELSE IF IsSpace(Head(s)) THEN lstrip(Tail(s)) ELSE s

RECURSIVE rstrip(_)
rstrip(s) ==
    IF s = <<>> THEN <<>>
    ELSE IF IsSpace(s[Len(s)]) THEN rstrip(SubSeq(s, 1, Len(s) - 1)) ELSE s

\* str.strip()
strip(s) == rstrip(lstrip(s))

Digit(d) == <<"0", "1", "2", "3", "4", "5", "6", "7", "8", "9">>[d + 1]

RECURSIVE IntStr(_)
IntStr(n) ==
    IF n < 0 THEN <<"-">> \o IntStr(-n)
    ELSE IF n < 10 THEN <<Digit(n)>>
    ELSE IntStr(n \div 10) \o <<Digit(n % 10)>>

\* str(v), also what an f-string writes for v
Str(v) ==
    CASE v.type = "str" -> v.val
      [] v.type = "int" -> IntStr(v.val)
      [] v.type = "NoneType" -> <<"None">>
      [] OTHER -> <<"<object>">>

\* bool(v)
Truthy(v) ==
    CASE v.type = "str" -> v.val # <<>>
      [] v.type = "int" -> v.val # 0
      [] v.type = "NoneType" -> FALSE
      [] v.type = "list" -> v.val # <<>>
      [] v.type = "dict" -> DOMAIN v.val # {}
      [] OTHER -> TRUE

\* d.get(key, default) on the items of a dict
Get(d, key, default) == IF key \in DOMAIN d THEN d[key] ELSE default

\* all texts of at most n characters over the alphabet {" ", "a"}
Texts(n) == UNION {[1..m -> {" ", "a"}] : m \in 0..n}

(* ----------------------- data_loader.py: the loader -------------------- *)

\* _validate_ticket(ticket, index)
validate_ticket(ticket) ==
    /\ ticket.type = "dict"
    /\ \A field \in {"id", "subject", "body"} :
          /\ field \in DOMAIN ticket.val
          /\ Truthy(ticket.val[field])
          /\ strip(Str(ticket.val[field])) # <<>>
    /\ strip(Str(ticket.val["id"])) # <<>>

RECURSIVE valid_tickets(_)
valid_tickets(tickets) ==
    IF tickets = <<>> THEN <<>>
    ELSE (IF validate_ticket(Head(tickets)) THEN <<Head(tickets)>> ELSE <<>>)
         \o valid_tickets(Tail(tickets))

\* load_all_tickets returning [] where the code raises for zero valid tickets
load_all_tickets_no_check(src) ==
    IF src.kind = "missing" THEN [raised |-> "FileNotFoundError", value |-> <<>>]
    ELSE IF src.kind \in {"empty_file", "bad_json"} THEN [raised |-> "ValueError", value |-> <<>>]
    ELSE IF src.json.type # "list" THEN [raised |-> "ValueError", value |-> <<>>]
    ELSE [raised |-> "", value |-> valid_tickets(src.json.val)]

\* load_all_tickets(): [raised |-> the exception type or "", value |-> the list]
load_all_tickets(src) ==
    IF src.kind = "missing" THEN [raised |-> "FileNotFoundError", value |-> <<>>]
    ELSE IF src.kind = "empty_file" THEN [raised |-> "ValueError", value |-> <<>>]
    ELSE IF src.kind = "bad_json" THEN [raised |-> "ValueError", value |-> <<>>]
    ELSE IF src.json.type # "list" THEN [raised |-> "ValueError", value |-> <<>>]
    ELSE IF src.json.val = <<>> THEN [raised |-> "", value |-> <<>>]
    ELSE IF valid_tickets(src.json.val) = <<>>
         THEN [raised |-> "ValueError", value |-> <<>>]
    ELSE [raised |-> "", value |-> valid_tickets(src.json.val)]

\* lst[:stop], a negative stop counting from the end
slice_to(lst, stop) ==
    IF stop >= 0 THEN SubSeq(lst, 1, Min(stop, Len(lst)))
    ELSE SubSeq(lst, 1, Max(0, Len(lst) + stop))

\* get_ticket_sample(n): the list it returns
get_ticket_sample(src, n) ==
    LET loaded == load_all_tickets(src)
    IN  IF loaded.raised # "" THEN <<>>
        ELSE slice_to(loaded.value, Min(n, Len(loaded.value)))

\* hash(v) is defined: a list or dict cannot be a dict key
Hashable(v) == v.type \notin {"list", "dict"}

\* counts[key] = counts.get(key, 0) + 1
count_key(counts, key) ==
    [x \in DOMAIN counts \cup {key} |->
        IF x = key THEN Get(counts, key, 0) + 1 ELSE counts[x]]

\* the histogram get_ticket_stats builds over ticket.get(field, "unknown")
RECURSIVE breakdown(_, _, _)
breakdown(tickets, field, counts) ==
    IF tickets = <<>> THEN counts
    ELSE breakdown(Tail(tickets), field,
                   count_key(counts, Get(Head(tickets).val, field, PyStr(<<"unknown">>))))

\* get_ticket_stats(): the dict it returns
get_ticket_stats(src) ==
    LET loaded == load_all_tickets(src)
        keys == {Get(loaded.value[i].val, field, PyStr(<<"unknown">>)) :
                    i \in DOMAIN loaded.value, field \in {"status", "priority"}}
    IN  IF loaded.raised # "" THEN [error |-> loaded.raised]
        ELSE IF \E key \in keys : ~Hashable(key) THEN [error |-> "TypeError"]
        ELSE [total_tickets |-> Len(loaded.value),
              status_breakdown |-> breakdown(loaded.value, "status", <<>>),
              priority_breakdown |-> breakdown(loaded.value, "priority", <<>>)]

(* ----------------------------- ticket files ---------------------------- *)

Ticket(id, subject, body) ==
    PyDict([id |-> id, subject |-> PyStr(subject), body |-> PyStr(body)])

TicketWithResolution(id, subject, body, resolution) ==
    PyDict([id |-> id, subject |-> PyStr(subject), body |-> PyStr(body),
            resolution |-> PyStr(resolution)])

JsonFile(entries) == [kind |-> "json", json |-> PyList(entries)]

\* MAX_TOP_K + MaxOver valid tickets with the ids "1", "2", ...
BigFile == JsonFile([i \in 1..(MAX_TOP_K + MaxOver) |-> Ticket(PyStr(IntStr(i)), <<"s">>, <<"b">>)])

Sources ==
    { [kind |-> "missing"], [kind |-> "empty_file"], [kind |-> "bad_json"],
      [kind |-> "json", json |-> PyDict([id |-> PyStr(<<"1">>)])],
      JsonFile(<<>>),
      \* every entry invalid: not a mapping, a blank subject
      JsonFile(<<PyStr(<<"x">>), Ticket(PyStr(<<"1">>), <<" ">>, <<"b">>)>>),
      \* two valid tickets around an entry with no body
      JsonFile(<<TicketWithResolution(PyStr(<<"1">>), <<"s">>, <<"b">>, <<"r">>),
                 PyDict([id |-> PyStr(<<"9">>), subject |-> PyStr(<<"s">>)]),
                 Ticket(PyInt(2), <<"t">>, <<"c">>)>>),
      \* two valid tickets that share an id
      JsonFile(<<Ticket(PyStr(<<"1">>), <<"s">>, <<"b">>),
                 Ticket(PyStr(<<"1">>), <<"t">>, <<"c">>)>>),
      BigFile }

\* the entries a ticket file of the loader specification is made of
LoaderEntries ==
    { PyStr(<<"x">>),
      Ticket(PyStr(<<"1">>), <<"s">>, <<"b">>),
      Ticket(PyInt(0), <<"s">>, <<"b">>),
      Ticket(PyStr(<<"2">>), <<" ">>, <<"b">>),
      PyDict([id |-> PyStr(<<"3">>), subject |-> PyStr(<<"s">>)]),
      PyDict([id |-> PyStr(<<"4">>), subject |-> PyStr(<<"s">>), body |-> PyNone]),
      PyDict([id |-> PyStr(<<"5">>), subject |-> PyStr(<<"s">>), body |-> PyStr(<<"b">>),
              status |-> PyStr(<<"open">>), priority |-> PyStr(<<"high">>)]),
      PyDict([id |-> PyStr(<<"6">>), subject |-> PyStr(<<"s">>), body |-> PyStr(<<"b">>),
              status |-> PyList(<<>>)]) }

LoaderSources ==
    { [kind |-> "missing"], [kind |-> "empty_file"], [kind |-> "bad_json"],
      [kind |-> "json", json |-> PyDict([id |-> PyStr(<<"1">>)])] }
    \cup {JsonFile(entries) : entries \in UNION {[1..n -> LoaderEntries] : n \in 0..MaxEntries}}

\* the n of get_ticket_sample(n)
SampleSizes == (0 - MaxEntries)..(MaxEntries + 1)

(* -------------------- embeddings.py: the embedding step ---------------- *)

\* a getter that constructs the model on every call
cache_is_empty_always(cache) == TRUE

\* _get_embedding_model: `if _model_cache is None`
cache_is_empty(cache) == cache = "None"

\* _get_embedding_model(): loaded tells whether the caller gets a model or
\* the ValueError of a failed construction, which leaves the cache as it was
get_embedding_model(loaded) ==
    IF cache_is_empty(model_cache)
    THEN \/ /\ loaded
            /\ model_cache' = "SentenceTransformer"
            /\ constructor_calls' = Append(constructor_calls, "loaded")
         \/ /\ ~loaded
            /\ Cardinality({i \in DOMAIN constructor_calls : constructor_calls[i] = "failed"})
                   < MaxConstructorFailures
            /\ constructor_calls' = Append(constructor_calls, "failed")
            /\ UNCHANGED model_cache
    ELSE /\ loaded
         /\ UNCHANGED <<model_cache, constructor_calls>>

\* model.encode on one text: the vector of that text
Encode(text) == [vector_of |-> text]

\* the combined text left untrimmed
combined_text_unstripped(ticket) ==
    Str(Get(ticket.val, "subject", PyStr(<<>>))) \o <<"\n", "\n">>
        \o Str(Get(ticket.val, "body", PyStr(<<>>)))

\* the combined text get_embeddings builds for one ticket
combined_text(ticket) ==
    strip(Str(Get(ticket.val, "subject", PyStr(<<>>))) \o <<"\n", "\n">>
          \o Str(Get(ticket.val, "body", PyStr(<<>>))))

\* the texts get_embeddings keeps: tickets with an empty combined text are skipped
RECURSIVE embedding_texts(_)
embedding_texts(tickets) ==
    IF tickets = <<>> THEN <<>>
    ELSE (IF combined_text(Head(tickets)) = <<>> THEN <<>>
          ELSE <<combined_text(Head(tickets))>>)
         \o embedding_texts(Tail(tickets))

\* an embedding step that loses the vector of the first ticket
get_embeddings_skip_first(tickets) ==
    LET texts == embedding_texts(tickets)
    IN  [i \in 1..(Len(texts) - 1) |-> Encode(texts[i + 1])]

\* the list get_embeddings returns when the model loads and encodes
get_embeddings(tickets) ==
    LET texts == embedding_texts(tickets)
    IN  [i \in 1..Len(texts) |-> Encode(texts[i])]

\* the tickets get_embeddings is called with
EmbeddingTickets ==
    { Ticket(PyStr(<<"1">>), <<"a">>, <<"b">>),
      Ticket(PyStr(<<"2">>), <<" ">>, <<>>),
      Ticket(PyStr(<<"3">>), <<" ", "a">>, <<" ">>),
      PyDict([id |-> PyStr(<<"4">>)]),
      PyDict([id |-> PyStr(<<"5">>), subject |-> PyStr(<<"a">>)]),
      PyDict([id |-> PyStr(<<"6">>), subject |-> PyInt(0), body |-> PyStr(<<>>)]) }

EmbeddingInputs == UNION {[1..n -> EmbeddingTickets] : n \in 0..MaxTickets}

(* ------------------- chroma_index.py: the index manager ---------------- *)

\* the id, document and metadata index_all_tickets builds for one ticket,
\* n being the number of ids built so far
build_document(ticket, n) ==
    LET ticket_id == Str(Get(ticket.val, "id", PyStr(<<"ticket_">> \o IntStr(n))))
        subject == Get(ticket.val, "subject", PyStr(<<"No subject">>))
        body == Get(ticket.val, "body", PyStr(<<"No description">>))
    IN  [id |-> ticket_id,
         document |-> Str(subject) \o <<"\n", "\n">> \o Str(body),
         metadata |->
            [ticketId |-> PyStr(ticket_id),
             ticketSubject |-> subject,
             ticketResolution |-> Get(ticket.val, "resolution", PyStr(<<"No resolution provided">>)),
             ticketStatus |-> Get(ticket.val, "status", PyStr(<<"unknown">>)),
             ticketPriority |-> Get(ticket.val, "priority", PyStr(<<"normal">>)),
             created_at |-> Get(ticket.val, "created_at", PyStr(<<>>))]]

\* the ids, documents and metadatas lists, position by position
RECURSIVE build_batch(_, _)
build_batch(tickets, done) ==
    IF tickets = <<>> THEN done
    ELSE build_batch(Tail(tickets), Append(done, build_document(Head(tickets), Len(done))))

\* the body of the per-ticket try raises when ticket.get does: the ticket is
\* no mapping
document_raises(ticket) == ticket.type # "dict"

\* the tickets whose document construction did not raise
kept_tickets(tickets) ==
    LET kept == {i \in DOMAIN tickets : ~document_raises(tickets[i])}
        nth(k) == CHOOSE i \in kept : Cardinality({j \in kept : j < i}) = k - 1
    IN  [k \in 1..Cardinality(kept) |-> tickets[nth(k)]]

\* an insert that never overwrites
put_entry_append(coll, entry) == Append(coll, entry)

\* one entry written under its id: an entry of that id is overwritten in place
put_entry(coll, entry) ==
    IF \E i \in DOMAIN coll : coll[i].id = entry.id
    THEN [i \in DOMAIN coll |-> IF coll[i].id = entry.id THEN entry ELSE coll[i]]
    ELSE Append(coll, entry)

\* collection.upsert(embeddings, ids, documents, metadatas): the batch is
\* written in one call, entry by entry in batch order, the last write of an
\* id winning
RECURSIVE upsert(_, _, _)
upsert(coll, batch, embeddings) ==
    IF batch = <<>> THEN coll
    ELSE upsert(put_entry(coll, [id |-> Head(batch).id,
                                 document |-> Head(batch).document,
                                 metadata |-> Head(batch).metadata,
                                 embedding |-> Head(embeddings)]),
                Tail(batch), Tail(embeddings))

(* --------------------- rag_query.py: the query engine ------------------ *)

\* 1.0 in the fixed-point unit of distances and scores (tenths)
Scale == 10

\* the distance of the nearest hit of a k-NN answer
Distances == {0, Scale}

\* what the index may hold as the metadata of a hit: the stored mapping, no
\* metadata at all, or a mapping with the subject only
HitKinds == {"stored", "none", "subject_only"}

\* collection.query(query_texts, n_results, include): the answer that carries
\* the first m entries, the metadata of the first hits being of the given kinds
knn_query(coll, m, kinds, d0) ==
    [ids |-> <<[i \in 1..m |-> coll[i].id]>>,
     documents |-> <<[i \in 1..m |-> coll[i].document]>>,
     metadatas |-> <<[i \in 1..m |->
                        IF i \notin DOMAIN kinds \/ kinds[i] = "stored"
                        THEN PyDict(coll[i].metadata)
                        ELSE IF kinds[i] = "none" THEN PyNone
                        ELSE PyDict([ticketSubject |-> coll[i].metadata.ticketSubject])]>>,
     distances |-> <<[i \in 1..m |-> IF m = 0 THEN 0 ELSE d0 + i - 1]>>]

\* the numbers of hits the index may answer with when asked for n
HitCounts(coll, n) == {0, Min(Max(n, 0), Len(coll))}

\* the body of the per-hit try: it raises when the hit's metadata is no mapping
hit_raises(results, idx) == results.metadatas[1][idx].type # "dict"

\* the tuple of a hit with the score left unclamped: 1.0 - distance
format_hit_unclamped(results, idx) ==
    LET metadata == results.metadatas[1][idx].val
    IN  [ticket_id |-> Get(metadata, "ticketId", PyStr(<<"unknown">>)),
         ticket_subject |-> Get(metadata, "ticketSubject", PyStr(<<"No subject">>)),
         snippet |-> results.documents[1][idx],
         ticket_resolution |-> Get(metadata, "ticketResolution", PyStr(<<"No resolution available">>)),
         score |-> Scale - results.distances[1][idx]]

\* the tuple appended for hit idx
format_hit(results, idx) ==
    LET metadata == results.metadatas[1][idx].val
    IN  [ticket_id |-> Get(metadata, "ticketId", PyStr(<<"unknown">>)),
         ticket_subject |-> Get(metadata, "ticketSubject", PyStr(<<"No subject">>)),
         snippet |-> results.documents[1][idx],
         ticket_resolution |-> Get(metadata, "ticketResolution", PyStr(<<"No resolution available">>)),
         score |-> Max(0, Scale - results.distances[1][idx])]

\* the per-hit handler: a hit whose formatting raises is skipped
RECURSIVE format_from(_, _)
format_from(results, idx) ==
    IF idx > Len(results.ids[1]) THEN <<>>
    ELSE (IF hit_raises(results, idx) THEN <<>> ELSE <<format_hit(results, idx)>>)
         \o format_from(results, idx + 1)

\* a formatting that gives up the whole batch when one hit raises
format_results_abort(results) ==
    IF results.ids = <<>> \/ results.ids[1] = <<>> THEN <<>>
    ELSE IF \E idx \in DOMAIN results.ids[1] : hit_raises(results, idx) THEN <<>>
    ELSE format_from(results, 1)

\* formatted_results of query_top_k_tickets
format_results(results) ==
    IF results.ids = <<>> \/ results.ids[1] = <<>> THEN <<>>
    ELSE format_from(results, 1)

\* query_top_k_tickets without the cap on k
clamp_k_unclamped(k) == k

\* the k query_top_k_tickets asks the index for
clamp_k(k) == IF k > MAX_TOP_K THEN MAX_TOP_K ELSE k

\* the guard without its strip: "not query"
is_empty_query_no_strip(query) == query = <<>>

\* the guard "not query or not query.strip()"
is_empty_query(query) == query = <<>> \/ strip(query) = <<>>

NO_TICKETS_MSG ==
    <<"I couldn't find any relevant support tickets to answer your question.", " ",
      "This might be a new type of issue. Please contact our support team directly", " ",
      "for personalized assistance.">>

CONFIG_ERROR_MSG ==
    <<"Error: AI service is not properly configured. Please contact support.">>

APOLOGY_MSG ==
    <<"I apologize, but I'm having trouble generating a response right now.", " ",
      "Please try rephrasing your question or contact support directly.">>

ERROR_PREFIX ==
    <<"I encountered an error while processing your question.", " ",
      "Please try again or contact our support team for assistance.", " ",
      "Error:", " ">>

\* the descriptions str(e) of the exceptions the generative model raises
GenErrors == {<<>>, <<"e">>, <<" ">>}

\* what model.generate_content returns: no response, a response without text,
\* or a response with a text
Responses ==
    {PyNone, [type |-> "response", text |-> PyNone]}
    \cup {[type |-> "response", text |-> PyStr(txt)] : txt \in Texts(MaxLen)}

\* the guard "not response or not response.text"
is_empty_response(response) ==
    response.type = "NoneType" \/ ~Truthy(response.text)

\* "=" * 50 and "-" * 30
Repeat(c, n) == [i \in 1..n |-> c]

\* a description that marks a snippet of exactly DESCRIPTION_LIMIT characters too
description_marks_at_limit(snippet) ==
    SubSeq(snippet, 1, Min(Len(snippet), DESCRIPTION_LIMIT))
        \o (IF Len(snippet) >= DESCRIPTION_LIMIT THEN <<"...">> ELSE <<>>)

\* {snippet[:200]}{'...' if len(snippet) > 200 else ''}
description(snippet) ==
    SubSeq(snippet, 1, Min(Len(snippet), DESCRIPTION_LIMIT))
        \o (IF Len(snippet) > DESCRIPTION_LIMIT THEN <<"...">> ELSE <<>>)

\* {score:.1%} of a score in tenths
percent(score) == IntStr((score * 100) \div Scale) \o <<".0%">>

\* the lines build_rag_prompt appends for one ticket
case_block(ticket) ==
    << <<"Case: ">> \o Str(ticket.ticket_subject),
       <<"Description: ">> \o description(ticket.snippet),
       <<"Resolution: ">> \o Str(ticket.ticket_resolution),
       <<"Relevance: ">> \o percent(ticket.score),
       Repeat("-", 30) >>

RECURSIVE case_blocks(_)
case_blocks(tickets) ==
    IF tickets = <<>> THEN <<>>
    ELSE case_block(Head(tickets)) \o case_blocks(Tail(tickets))

\* build_rag_prompt(query, relevant_tickets): the prompt as the sequence of
\* its lines, a fixed paragraph being one line
build_rag_prompt(query, relevant_tickets) ==
    IF relevant_tickets = <<>>
    THEN << <<"You are a helpful customer support assistant. The user has asked: \"">>
                \o query \o <<"\"">>,
            <<>>,
            <<"Unfortunately, I couldn't find any relevant historical support tickets ...">>,
            <<>>,
            <<"Answer:">> >>
    ELSE << <<"You are an expert customer support assistant ...">>,
            <<"IMPORTANT GUIDELINES: ...">>,
            <<>>,
            <<"## User Question:">>,
            query,
            <<>>,
            <<"## Relevant Support Cases:">>,
            Repeat("=", 50) >>
         \o case_blocks(relevant_tickets)
         \o << <<>>, <<"## Your Response:">> >>

\* a document of n characters, the i-th one being the last digit of i
Snippet(n) == [i \in 1..n |-> Digit(i % 10)]

\* the formatted tickets build_rag_prompt is called with
PromptTickets ==
    { [ticket_id |-> PyStr(<<"1">>),
       ticket_subject |-> PyStr(IF score = 0 THEN <<"No subject">> ELSE <<"s">>),
       snippet |-> Snippet(n), ticket_resolution |-> PyStr(<<"No resolution available">>),
       score |-> score] :
         n \in {0} \cup ((DESCRIPTION_LIMIT - 1)..(DESCRIPTION_LIMIT + MaxOver)),
         score \in {0, Scale} }

PromptInputs == UNION {[1..n -> PromptTickets] : n \in 0..MaxTickets}

(* ------------------------------ call frames ---------------------------- *)

Queries == Texts(MaxLen)

KValues == {0, 1, DEFAULT_TOP_K, MAX_TOP_K} \cup ((MAX_TOP_K + 1)..(MAX_TOP_K + MaxOver))

\* the (collection, chroma_client) pair create_or_get_chroma_collection returns
Handle == [type |-> "tuple", val |-> <<"collection", "chroma_client">>]

\* no call in progress
NoCall ==
    [pc |-> "idle", op |-> "", query |-> <<>>,
     k_arg |-> 0,            \* the k the caller passed
     k |-> 0,                \* the local k, clamped by query_top_k_tickets
     before |-> <<>>,        \* the collection when the call began
     opened |-> 0,           \* calls of create_or_get_chroma_collection
     ticket_count |-> <<>>,  \* the count that call observed, once it has
     passes |-> 0,           \* calls of index_all_tickets
     batch |-> <<>>,         \* the ids, documents and metadatas passed to collection.upsert
     index_raised |-> FALSE, \* index_all_tickets raised its ValueError
     exception |-> "",       \* the type of the exception that left the call
     calls_before |-> <<>>,  \* constructor_calls when the call began
     tickets |-> <<>>, embeddings |-> <<>>,
     upserts |-> 0,          \* batches written
     n_results |-> <<>>,     \* the n_results of each k-NN query issued
     results |-> PyNone,     \* the answer of the k-NN query
     caught |-> {},          \* where an exception was raised during the call
     top_k_tickets |-> <<>>,
     gen_calls |-> 0,        \* calls of generate_content
     gen_error |-> <<>>,     \* the description of the exception it raised
     response |-> PyNone,
     result |-> PyNone,      \* the value returned
     escaped |-> FALSE]      \* the call raised instead of returning

NewCall(op, query, k, coll) ==
    [NoCall EXCEPT !.pc = IF op = "create_or_get_chroma_collection" THEN "open" ELSE "validate",
                   !.op = op, !.query = query, !.k_arg = k, !.k = k, !.before = coll]

(* ------------------------- the exception handlers ---------------------- *)

\* resolve_query without its handler: the exception leaves the call
resolve_query_reraise(f, desc) ==
    [f EXCEPT !.pc = "done", !.escaped = TRUE]

\* resolve_query's handler returning the fixed text without str(e)
resolve_query_except_no_desc(f, desc) ==
    [f EXCEPT !.pc = "done", !.result = PyStr(ERROR_PREFIX)]

\* a handler that calls the generative model a second time before giving up
resolve_query_except_retry(f, desc) ==
    IF f.gen_calls < 2 THEN [f EXCEPT !.pc = "generate"]
    ELSE [f EXCEPT !.pc = "done", !.result = PyStr(ERROR_PREFIX \o desc)]

\* resolve_query's "except Exception as e": the error text is returned
resolve_query_except(f, desc) ==
    [f EXCEPT !.pc = "done", !.result = PyStr(ERROR_PREFIX \o desc)]

\* query_top_k_tickets returns tickets to its caller
retrieved(f, tickets) ==
    IF f.op = "query_top_k_tickets"
    THEN [f EXCEPT !.pc = "done", !.top_k_tickets = tickets, !.result = PyList(tickets)]
    ELSE [f EXCEPT !.pc = "retrieved", !.top_k_tickets = tickets]

\* query_top_k_tickets without its outer handler: the exception reaches the caller
query_top_k_tickets_reraise(f) ==
    IF f.op = "resolve_query" THEN resolve_query_except(f, <<"e">>)
    ELSE [f EXCEPT !.pc = "done", !.escaped = TRUE]

\* query_top_k_tickets' outer "except Exception as e": return []
query_top_k_tickets_except(f) == retrieved(f, <<>>)

\* create_or_get_chroma_collection's "except Exception as e": raise ValueError
create_or_get_except(f) ==
    IF f.op = "create_or_get_chroma_collection"
    THEN [f EXCEPT !.pc = "done", !.escaped = TRUE]
    ELSE query_top_k_tickets_except(f)

\* index_all_tickets swallowing the exception and returning
index_all_tickets_except_swallow(f) ==
    IF f.op = "create_or_get_chroma_collection"
    THEN [f EXCEPT !.pc = "done", !.result = Handle]
    ELSE [f EXCEPT !.pc = "query"]

\* index_all_tickets' "except Exception as e": raise ValueError
index_all_tickets_except(f) ==
    create_or_get_except([f EXCEPT !.index_raised = TRUE])

\* create_or_get_chroma_collection returns the handle
return_handle(f) ==
    IF f.op = "create_or_get_chroma_collection"
    THEN [f EXCEPT !.pc = "done", !.result = Handle]
    ELSE [f EXCEPT !.pc = "query"]

\* create_or_get_chroma_collection never populating, whatever the count
after_count_never_index(f, count) ==
    return_handle([f EXCEPT !.ticket_count = <<count>>])

\* create_or_get_chroma_collection indexing whatever the count is
after_count_always_index(f, count) ==
    [f EXCEPT !.ticket_count = <<count>>, !.pc = "load", !.passes = @ + 1]

\* lines 65-73 of create_or_get_chroma_collection: index when the count is 0
after_count(f, count) ==
    IF count = 0
    THEN [f EXCEPT !.ticket_count = <<count>>, !.pc = "load", !.passes = @ + 1]
    ELSE return_handle([f EXCEPT !.ticket_count = <<count>>])

\* resolve_query testing the API key before the retrieved tickets
after_retrieval_key_first(f, key) ==
    IF ~key
    THEN [f EXCEPT !.pc = "done", !.result = PyStr(CONFIG_ERROR_MSG)]
    ELSE [f EXCEPT !.pc = "generate"]

\* resolve_query without the API key test
after_retrieval_no_key_check(f, key) ==
    IF f.top_k_tickets = <<>>
    THEN [f EXCEPT !.pc = "done", !.result = PyStr(NO_TICKETS_MSG)]
    ELSE [f EXCEPT !.pc = "generate"]

\* lines 172-184 of resolve_query
after_retrieval(f, key) ==
    IF f.top_k_tickets = <<>>
    THEN [f EXCEPT !.pc = "done", !.result = PyStr(NO_TICKETS_MSG)]
    ELSE IF ~key
    THEN [f EXCEPT !.pc = "done", !.result = PyStr(CONFIG_ERROR_MSG)]
    ELSE [f EXCEPT !.pc = "generate"]

\* lines 201-207 of resolve_query
after_generate(f, response) ==
    IF is_empty_response(response)
    THEN [f EXCEPT !.pc = "done", !.response = response, !.result = PyStr(APOLOGY_MSG)]
    ELSE [f EXCEPT !.pc = "done", !.response = response,
                   !.result = PyStr(strip(response.text.val))]

(* -------------------------------- actions ------------------------------ *)

Set(t, f) == frame' = [frame EXCEPT ![t] = f]

Caught(f, site) == [f EXCEPT !.caught = @ \cup {site}]

\* a caller invokes resolve_query(query, k)
CallResolveQuery(t) ==
    /\ frame[t].pc = "idle"
    /\ \E query \in Queries, k \in KValues :
          Set(t, NewCall("resolve_query", query, k, collection))
    /\ UNCHANGED <<source, GOOGLE_API_KEY, collection, model_cache, constructor_calls>>

\* a caller invokes query_top_k_tickets(query, k)
CallQueryTopK(t) ==
    /\ frame[t].pc = "idle"
    /\ \E query \in Queries, k \in KValues :
          Set(t, NewCall("query_top_k_tickets", query, k, collection))
    /\ UNCHANGED <<source, GOOGLE_API_KEY, collection, model_cache, constructor_calls>>

\* a caller invokes create_or_get_chroma_collection()
CallCreateOrGet(t) ==
    /\ frame[t].pc = "idle"
    /\ Set(t, NewCall("create_or_get_chroma_collection", <<>>, 0, collection))
    /\ UNCHANGED <<source, GOOGLE_API_KEY, collection, model_cache, constructor_calls>>

\* query_top_k_tickets, lines 43-49: clamp k, return [] for an empty query
Validate(t) ==
    /\ frame[t].pc = "validate"
    /\ LET f == [frame[t] EXCEPT !.k = clamp_k(@)]
       IN  Set(t, IF is_empty_query(f.query) THEN retrieved(f, <<>>)
                  ELSE [f EXCEPT !.pc = "open"])
    /\ UNCHANGED <<source, GOOGLE_API_KEY, collection, model_cache, constructor_calls>>

\* create_or_get_chroma_collection, lines 37-75: open the client and the
\* collection, read the count
Open(t) ==
    /\ frame[t].pc = "open"
    /\ LET f == [frame[t] EXCEPT !.opened = @ + 1]
       IN  \/ Set(t, create_or_get_except(Caught(f, "open")))
           \/ Set(t, after_count(f, Len(collection)))
    /\ UNCHANGED <<source, GOOGLE_API_KEY, collection, model_cache, constructor_calls>>

\* index_all_tickets, lines 92-99: load the tickets
Load(t) ==
    /\ frame[t].pc = "load"
    /\ LET f == frame[t]
           loaded == load_all_tickets(source)
       IN  Set(t, IF loaded.raised # "" THEN index_all_tickets_except(Caught(f, "load"))
                  ELSE IF loaded.value = <<>> THEN return_handle(f)
                  ELSE [f EXCEPT !.tickets = loaded.value, !.pc = "embed"])
    /\ UNCHANGED <<source, GOOGLE_API_KEY, collection, model_cache, constructor_calls>>

\* index_all_tickets, line 103: get_embeddings(tickets), which loads the
\* model through _get_embedding_model when there are texts to encode
Embed(t) ==
    /\ frame[t].pc = "embed"
    /\ LET f == frame[t]
       IN  IF embedding_texts(f.tickets) = <<>>
           THEN /\ Set(t, [f EXCEPT !.embeddings = <<>>, !.pc = "upsert"])
                /\ UNCHANGED <<model_cache, constructor_calls>>
           ELSE \/ \* SentenceTransformer(EMBEDDING_MODEL) raises
                   /\ get_embedding_model(FALSE)
                   /\ Set(t, index_all_tickets_except(Caught(f, "embed")))
                \/ \* model.encode raises
                   /\ get_embedding_model(TRUE)
                   /\ Set(t, index_all_tickets_except(Caught(f, "embed")))
                \/ /\ get_embedding_model(TRUE)
                   /\ Set(t, [f EXCEPT !.embeddings = get_embeddings(f.tickets),
                                       !.pc = "upsert"])
    /\ UNCHANGED <<source, GOOGLE_API_KEY, collection>>

\* index_all_tickets, lines 105-150: build the batch, a ticket whose
\* construction raises being skipped by the per-ticket handler, and upsert it
\* in one call; the index rejects a batch whose lists differ in length
Upsert(t) ==
    /\ frame[t].pc = "upsert"
    /\ LET skipped == \E i \in DOMAIN frame[t].tickets : document_raises(frame[t].tickets[i])
           batch == build_batch(kept_tickets(frame[t].tickets), <<>>)
           f == [(IF skipped THEN Caught(frame[t], "document") ELSE frame[t])
                    EXCEPT !.batch = batch]
       IN  IF batch = <<>>
           THEN Set(t, return_handle(f)) /\ UNCHANGED collection
           ELSE \/ \* collection.upsert raises
                   /\ Set(t, index_all_tickets_except(Caught(f, "upsert")))
                   /\ UNCHANGED collection
                \/ /\ Len(f.embeddings) = Len(batch)
                   /\ collection' = upsert(collection, batch, f.embeddings)
                   /\ Set(t, return_handle([f EXCEPT !.upserts = @ + 1]))
    /\ UNCHANGED <<source, GOOGLE_API_KEY, model_cache, constructor_calls>>

\* query_top_k_tickets, lines 56-95: one k-NN query and the formatting of its hits
Query(t) ==
    /\ frame[t].pc = "query"
    /\ LET f == [frame[t] EXCEPT !.n_results = Append(@, frame[t].k)]
       IN  \/ \* collection.query raises
              Set(t, query_top_k_tickets_except(Caught(f, "query")))
           \/ \E m \in HitCounts(collection, f.k), d0 \in Distances :
              \E kinds \in [1..Min(m, MaxBadPos) -> HitKinds] :
                 LET results == knn_query(collection, m, kinds, d0)
                     g == [f EXCEPT !.results = results]
                     skipped == \E idx \in 1..m : hit_raises(results, idx)
                 IN  Set(t, retrieved(IF skipped THEN Caught(g, "hit") ELSE g,
                                      format_results(results)))
    /\ UNCHANGED <<source, GOOGLE_API_KEY, collection, model_cache, constructor_calls>>

\* resolve_query, lines 172-184: the fallbacks before generation
AfterRetrieval(t) ==
    /\ frame[t].pc = "retrieved"
    /\ Set(t, after_retrieval(frame[t], GOOGLE_API_KEY))
    /\ UNCHANGED <<source, GOOGLE_API_KEY, collection, model_cache, constructor_calls>>

\* resolve_query, lines 186-213: one call of the generative model
Generate(t) ==
    /\ frame[t].pc = "generate"
    /\ LET f == [frame[t] EXCEPT !.gen_calls = @ + 1]
       IN  \/ \E desc \in GenErrors :
                 Set(t, resolve_query_except([Caught(f, "generate") EXCEPT !.gen_error = desc], desc))
           \/ \E response \in Responses : Set(t, after_generate(f, response))
    /\ UNCHANGED <<source, GOOGLE_API_KEY, collection, model_cache, constructor_calls>>

\* the call has returned (or raised) to its caller
Return(t) ==
    /\ frame[t].pc = "done"
    /\ Set(t, NoCall)
    /\ UNCHANGED <<source, GOOGLE_API_KEY, collection, model_cache, constructor_calls>>

\* a call of load_all_tickets()
CallLoadAllTickets(t) ==
    /\ frame[t].pc = "idle"
    /\ LET loaded == load_all_tickets(source)
       IN  Set(t, [NoCall EXCEPT !.pc = "done", !.op = "load_all_tickets",
                                 !.exception = loaded.raised,
                                 !.escaped = loaded.raised # "",
                                 !.result = IF loaded.raised # "" THEN PyNone
                                            ELSE PyList(loaded.value)])
    /\ UNCHANGED <<source, GOOGLE_API_KEY, collection, model_cache, constructor_calls>>

\* a call of get_ticket_sample(n)
CallGetTicketSample(t) ==
    /\ frame[t].pc = "idle"
    /\ \E n \in SampleSizes :
          Set(t, [NoCall EXCEPT !.pc = "done", !.op = "get_ticket_sample", !.k_arg = n,
                                !.result = PyList(get_ticket_sample(source, n))])
    /\ UNCHANGED <<source, GOOGLE_API_KEY, collection, model_cache, constructor_calls>>

\* a call of get_ticket_stats()
CallGetTicketStats(t) ==
    /\ frame[t].pc = "idle"
    /\ Set(t, [NoCall EXCEPT !.pc = "done", !.op = "get_ticket_stats",
                             !.result = PyDict(get_ticket_stats(source))])
    /\ UNCHANGED <<source, GOOGLE_API_KEY, collection, model_cache, constructor_calls>>

\* the ValueError of get_embeddings and get_query_embedding
embedding_error(f) == [f EXCEPT !.escaped = TRUE, !.exception = "ValueError"]

\* a call of get_embeddings(support_tickets)
CallGetEmbeddings(t) ==
    /\ frame[t].pc = "idle"
    /\ \E tickets \in EmbeddingInputs :
          LET f == [NoCall EXCEPT !.pc = "done", !.op = "get_embeddings",
                                  !.tickets = tickets, !.calls_before = constructor_calls]
          IN  IF tickets = <<>> \/ embedding_texts(tickets) = <<>>
              THEN /\ Set(t, [f EXCEPT !.result = PyList(<<>>)])
                   /\ UNCHANGED <<model_cache, constructor_calls>>
              ELSE \/ \* SentenceTransformer(EMBEDDING_MODEL) raises
                      /\ get_embedding_model(FALSE)
                      /\ Set(t, embedding_error(f))
                   \/ \* model.encode raises
                      /\ get_embedding_model(TRUE)
                      /\ Set(t, embedding_error(f))
                   \/ /\ get_embedding_model(TRUE)
                      /\ Set(t, [f EXCEPT !.result = PyList(get_embeddings(tickets))])
    /\ UNCHANGED <<source, GOOGLE_API_KEY, collection>>

\* a call of get_query_embedding(query)
CallGetQueryEmbedding(t) ==
    /\ frame[t].pc = "idle"
    /\ \E query \in Queries :
          LET f == [NoCall EXCEPT !.pc = "done", !.op = "get_query_embedding",
                                  !.query = query, !.calls_before = constructor_calls]
          IN  IF query = <<>> \/ strip(query) = <<>>
              THEN /\ Set(t, embedding_error(f))
                   /\ UNCHANGED <<model_cache, constructor_calls>>
              ELSE \/ \* SentenceTransformer(EMBEDDING_MODEL) raises
                      /\ get_embedding_model(FALSE)
                      /\ Set(t, embedding_error(f))
                   \/ \* model.encode raises
                      /\ get_embedding_model(TRUE)
                      /\ Set(t, embedding_error(f))
                   \/ /\ get_embedding_model(TRUE)
                      /\ Set(t, [f EXCEPT !.result = Encode(strip(query))])
    /\ UNCHANGED <<source, GOOGLE_API_KEY, collection>>

\* a call of build_rag_prompt(query, relevant_tickets)
CallBuildRagPrompt(t) ==
    /\ frame[t].pc = "idle"
    /\ \E query \in Queries, tickets \in PromptInputs :
          Set(t, [NoCall EXCEPT !.pc = "done", !.op = "build_rag_prompt",
                                !.query = query, !.top_k_tickets = tickets,
                                !.result = [type |-> "str",
                                            lines |-> build_rag_prompt(query, tickets)]])
    /\ UNCHANGED <<source, GOOGLE_API_KEY, collection, model_cache, constructor_calls>>

(* ----------------------------- specifications -------------------------- *)

Init ==
    /\ source \in Sources
    /\ GOOGLE_API_KEY \in BOOLEAN
    /\ collection = <<>>
    /\ model_cache = "None"
    /\ constructor_calls = <<>>
    /\ frame = [t \in Procs |-> NoCall]

\* one thread: the synchronous call chain of the query engine
Next ==
    \E t \in {1} :
        \/ CallResolveQuery(t)
        \/ CallQueryTopK(t)
        \/ CallCreateOrGet(t)
        \/ Validate(t)
        \/ Open(t)
        \/ Load(t)
        \/ Embed(t)
        \/ Upsert(t)
        \/ Query(t)
        \/ AfterRetrieval(t)
        \/ Generate(t)
        \/ Return(t)

Spec == Init /\ [][Next]_vars

\* two threads, each calling create_or_get_chroma_collection
NextConcurrent ==
    \E t \in Procs :
        \/ CallCreateOrGet(t)
        \/ Open(t)
        \/ Load(t)
        \/ Embed(t)
        \/ Upsert(t)
        \/ Return(t)

SpecConcurrent == Init /\ [][NextConcurrent]_vars

\* the loader's three entry points over every small ticket file
InitLoader ==
    /\ source \in LoaderSources
    /\ GOOGLE_API_KEY = FALSE
    /\ collection = <<>>
    /\ model_cache = "None"
    /\ constructor_calls = <<>>
    /\ frame = [t \in Procs |-> NoCall]

NextLoader ==
    \E t \in {1} :
        \/ CallLoadAllTickets(t)
        \/ CallGetTicketSample(t)
        \/ CallGetTicketStats(t)
        \/ Return(t)

SpecLoader == InitLoader /\ [][NextLoader]_vars

\* any sequence of calls of the two embedding functions
NextEmbeddings ==
    \E t \in {1} :
        \/ CallGetEmbeddings(t)
        \/ CallGetQueryEmbedding(t)
        \/ Return(t)

SpecEmbeddings == Init /\ [][NextEmbeddings]_vars

\* build_rag_prompt over every small list of formatted tickets
InitPrompt ==
    /\ source = [kind |-> "missing"]
    /\ GOOGLE_API_KEY = FALSE
    /\ collection = <<>>
    /\ model_cache = "None"
    /\ constructor_calls = <<>>
    /\ frame = [t \in Procs |-> NoCall]

NextPrompt ==
    \E t \in {1} :
        \/ CallBuildRagPrompt(t)
        \/ Return(t)

SpecPrompt == InitPrompt /\ [][NextPrompt]_vars

(* ------------------------------- properties ---------------------------- *)

\* one step of the call thread t is executing
Step(t) ==
    \/ Validate(t) \/ Open(t) \/ Load(t) \/ Embed(t) \/ Upsert(t)
    \/ Query(t) \/ AfterRetrieval(t) \/ Generate(t)

HasText(s) == \E i \in DOMAIN s : ~IsSpace(s[i])

AllWhitespace(s) == \A i \in DOMAIN s : IsSpace(s[i])

StartsWith(s, prefix) ==
    Len(s) >= Len(prefix) /\ SubSeq(s, 1, Len(prefix)) = prefix

EndsWith(s, suffix) ==
    Len(s) >= Len(suffix) /\ SubSeq(s, Len(s) - Len(suffix) + 1, Len(s)) = suffix

\* thread t has a resolve_query call that has ended
ResolveQueryEnded(t) == frame[t].op = "resolve_query" /\ frame[t].pc = "done"

\* C1: resolve_query never raises.  Whatever the index, the loader, the
\* embedding model and the generative model do, no exception leaves a
\* resolve_query call, a call in progress can always take its next step, and
\* the value of a call that has ended is a string.
C1_ResolveQueryNeverRaises ==
    \A t \in Procs :
        frame[t].op = "resolve_query" =>
            /\ ~frame[t].escaped
            /\ frame[t].pc \notin {"idle", "done"} => ENABLED Step(t)
            /\ frame[t].pc = "done" => frame[t].result.type = "str"

\* C1 witness: the generative model raised and the call ended with a string
C1_Witness ==
    /\ ResolveQueryEnded(1)
    /\ "generate" \in frame[1].caught
    /\ frame[1].result.type = "str"
    /\ ~frame[1].escaped

\* C2: every string resolve_query returns holds at least one character that
\* is not whitespace, the case of a missing, empty or whitespace-only
\* response text included.
C2_AlwaysSomeText ==
    \A t \in Procs :
        ResolveQueryEnded(t) =>
            /\ frame[t].result.type = "str"
            /\ HasText(frame[t].result.val)

\* thread t is in, or has ended, a call that runs query_top_k_tickets
Retrieving(t) == frame[t].op \in {"resolve_query", "query_top_k_tickets"}

\* query_top_k_tickets has returned in thread t's call
AfterRetrieve(t) == frame[t].pc \in {"retrieved", "generate", "done"}

\* the number of hits of a k-NN answer whose metadata is a mapping
WellFormedHits(results) ==
    IF "metadatas" \notin DOMAIN results THEN 0
    ELSE Cardinality({i \in DOMAIN results.metadatas[1] :
                        results.metadatas[1][i].type = "dict"})

\* the places that raise under the outer try of query_top_k_tickets only
OuterSites == {"open", "load", "embed", "upsert", "query"}

\* C3 as stated: whenever an exception was raised during the retrieval step
\* (opening the index, lazy population, the k-NN query, or the formatting of
\* a hit), query_top_k_tickets returns the empty list and resolve_query
\* returns the no-relevant-tickets text.
C3_AnyRetrievalExceptionGivesEmpty ==
    \A t \in Procs :
        (Retrieving(t) /\ AfterRetrieve(t)
           /\ frame[t].caught \cap (OuterSites \cup {"hit"}) # {}) =>
            /\ ~frame[t].escaped
            /\ frame[t].top_k_tickets = <<>>
            /\ ResolveQueryEnded(t) => frame[t].result = PyStr(NO_TICKETS_MSG)

\* C3 amended: no exception raised during the retrieval step leaves
\* query_top_k_tickets or makes resolve_query return the error text.  One
\* raised while opening the index, during lazy population or by the k-NN
\* query gives the empty list, and resolve_query then returns the
\* no-relevant-tickets text; one raised while formatting a hit drops that
\* hit only, the well-formed hits being returned.
C3_RetrievalExceptionsAreContained ==
    \A t \in Procs :
        Retrieving(t) =>
            /\ ~frame[t].escaped
            /\ (ResolveQueryEnded(t) /\ "generate" \notin frame[t].caught) =>
                   ~StartsWith(frame[t].result.val, ERROR_PREFIX)
            /\ (AfterRetrieve(t) /\ frame[t].caught \cap OuterSites # {}) =>
                   /\ frame[t].top_k_tickets = <<>>
                   /\ frame[t].pc # "generate"
                   /\ ResolveQueryEnded(t) => frame[t].result = PyStr(NO_TICKETS_MSG)
                   /\ (frame[t].op = "query_top_k_tickets" /\ frame[t].pc = "done") =>
                          frame[t].result = PyList(<<>>)
            /\ (AfterRetrieve(t) /\ "hit" \in frame[t].caught) =>
                   Len(frame[t].top_k_tickets) = WellFormedHits(frame[t].results)

\* C3 witness: the upsert of the lazy population raised, and resolve_query
\* returned the no-relevant-tickets text
C3_Witness ==
    /\ ResolveQueryEnded(1)
    /\ "upsert" \in frame[1].caught
    /\ frame[1].top_k_tickets = <<>>
    /\ frame[1].result = PyStr(NO_TICKETS_MSG)

\* C4: when retrieval yields no tickets, resolve_query returns the
\* no-relevant-tickets text and generate_content is never called, with or
\* without an API key.
C4_NoTicketsShortCircuits ==
    \A t \in Procs :
        frame[t].op = "resolve_query" =>
            /\ frame[t].pc = "generate" => frame[t].top_k_tickets # <<>>
            /\ frame[t].top_k_tickets = <<>> => frame[t].gen_calls = 0
            /\ (frame[t].pc = "done" /\ frame[t].top_k_tickets = <<>>) =>
                   /\ frame[t].result = PyStr(NO_TICKETS_MSG)
                   /\ ~frame[t].escaped

\* C4 witness: a key is configured, the k-NN query ran and gave no hit, and
\* the call ended with the fallback without calling the model
C4_Witness ==
    /\ ResolveQueryEnded(1)
    /\ GOOGLE_API_KEY
    /\ frame[1].n_results # <<>>
    /\ "query" \notin frame[1].caught
    /\ frame[1].top_k_tickets = <<>>
    /\ frame[1].gen_calls = 0
    /\ frame[1].result = PyStr(NO_TICKETS_MSG)

\* C5: with no API key and at least one retrieved ticket, resolve_query
\* returns the configuration-error text, does not raise, and never calls
\* generate_content.
C5_NoKeyGivesConfigError ==
    \A t \in Procs :
        (frame[t].op = "resolve_query" /\ ~GOOGLE_API_KEY) =>
            /\ frame[t].gen_calls = 0
            /\ frame[t].pc # "generate"
            /\ ~frame[t].escaped
            /\ (frame[t].pc = "done" /\ frame[t].top_k_tickets # <<>>) =>
                   frame[t].result = PyStr(CONFIG_ERROR_MSG)

\* C5 witness: no key, a ticket was retrieved, the configuration-error text returned
C5_Witness ==
    /\ ResolveQueryEnded(1)
    /\ ~GOOGLE_API_KEY
    /\ frame[1].top_k_tickets # <<>>
    /\ frame[1].result = PyStr(CONFIG_ERROR_MSG)

\* C6: when a key is configured and generate_content raises, resolve_query
\* does not raise and returns the fixed error text followed by the
\* description of the exception.
C6_GenerationFailureIsReported ==
    \A t \in Procs :
        (frame[t].op = "resolve_query" /\ "generate" \in frame[t].caught) =>
            /\ GOOGLE_API_KEY
            /\ frame[t].pc = "done"
            /\ ~frame[t].escaped
            /\ frame[t].result.type = "str"
            /\ StartsWith(frame[t].result.val, ERROR_PREFIX)
            /\ EndsWith(frame[t].result.val, frame[t].gen_error)
            /\ Len(frame[t].result.val) = Len(ERROR_PREFIX) + Len(frame[t].gen_error)

\* C6 witness: generate_content raised an exception described as "e"
C6_Witness ==
    /\ ResolveQueryEnded(1)
    /\ "generate" \in frame[1].caught
    /\ frame[1].gen_error = <<"e">>
    /\ frame[1].gen_calls = 1

\* C7: for an empty or whitespace-only query, query_top_k_tickets returns the
\* empty list at once: the index is not opened, no indexing pass runs, no
\* k-NN query is issued and the collection is what it was.
C7_EmptyQueryTouchesNothing ==
    \A t \in Procs :
        (Retrieving(t) /\ AllWhitespace(frame[t].query)) =>
            /\ frame[t].pc \notin {"open", "load", "embed", "upsert", "query"}
            /\ frame[t].opened = 0
            /\ frame[t].passes = 0
            /\ frame[t].upserts = 0
            /\ frame[t].n_results = <<>>
            /\ frame[t].top_k_tickets = <<>>
            /\ collection = frame[t].before
            /\ (frame[t].op = "query_top_k_tickets" /\ frame[t].pc = "done") =>
                   frame[t].result = PyList(<<>>) /\ ~frame[t].escaped

\* C7 witness: query_top_k_tickets returned [] for a blank query over a
\* populated collection
C7_Witness ==
    /\ frame[1].op = "query_top_k_tickets"
    /\ frame[1].pc = "done"
    /\ frame[1].query # <<>>
    /\ AllWhitespace(frame[1].query)
    /\ collection # <<>>
    /\ frame[1].result = PyList(<<>>)

\* C8: for a requested k above MAX_TOP_K, query_top_k_tickets asks the index
\* for exactly MAX_TOP_K results and returns at most MAX_TOP_K tickets.
C8_TopKIsCapped ==
    \A t \in Procs :
        (Retrieving(t) /\ frame[t].k_arg > MAX_TOP_K) =>
            /\ \A i \in DOMAIN frame[t].n_results : frame[t].n_results[i] = MAX_TOP_K
            /\ Len(frame[t].top_k_tickets) <= MAX_TOP_K
            /\ (frame[t].op = "query_top_k_tickets" /\ frame[t].pc = "done") =>
                   /\ frame[t].result.type = "list"
                   /\ Len(frame[t].result.val) <= MAX_TOP_K

\* C8 witness: k above the maximum over a collection larger than the maximum
\* returned exactly MAX_TOP_K tickets
C8_Witness ==
    /\ frame[1].op = "query_top_k_tickets"
    /\ frame[1].pc = "done"
    /\ frame[1].k_arg > MAX_TOP_K
    /\ Len(collection) > MAX_TOP_K
    /\ frame[1].n_results = <<MAX_TOP_K>>
    /\ Len(frame[1].result.val) = MAX_TOP_K

\* C9: lazy population is idempotent.  A call of
\* create_or_get_chroma_collection runs an indexing pass exactly when the
\* count it observed is 0; a call made when the collection is non-empty runs
\* no pass, leaves the collection as it was and, having opened it, returns
\* the handle.
C9_LazyPopulationIsIdempotent ==
    \A t \in Procs :
        /\ frame[t].passes <= 1
        /\ frame[t].ticket_count = <<>> => frame[t].passes = 0
        /\ frame[t].ticket_count # <<>> =>
               (frame[t].passes = 1 <=> frame[t].ticket_count[1] = 0)
        /\ (frame[t].op # "" /\ frame[t].before # <<>>) =>
               /\ frame[t].passes = 0
               /\ frame[t].upserts = 0
               /\ frame[t].pc \notin {"load", "embed", "upsert"}
               /\ collection = frame[t].before
               /\ (frame[t].op = "create_or_get_chroma_collection"
                     /\ frame[t].pc = "done" /\ "open" \notin frame[t].caught) =>
                      frame[t].result = Handle /\ ~frame[t].escaped

\* C9 witness: create_or_get_chroma_collection over a populated collection
\* returned the handle without indexing
C9_Witness ==
    /\ frame[1].op = "create_or_get_chroma_collection"
    /\ frame[1].pc = "done"
    /\ frame[1].before # <<>>
    /\ frame[1].ticket_count = <<Len(frame[1].before)>>
    /\ frame[1].passes = 0
    /\ frame[1].result = Handle
    /\ collection = frame[1].before

NoDuplicateIds(coll) ==
    \A i, j \in DOMAIN coll : coll[i].id = coll[j].id => i = j

\* the ids of the tickets the loader returns, as strings
TicketIds ==
    LET tickets == load_all_tickets(source).value
    IN  {Str(tickets[i].val["id"]) : i \in DOMAIN tickets}

\* the collection one indexing pass leaves
SinglePass ==
    LET tickets == load_all_tickets(source).value
    IN  upsert(<<>>, build_batch(tickets, <<>>), get_embeddings(tickets))

\* both threads ended a create_or_get_chroma_collection call that observed count 0
BothFirstCallers ==
    \A t \in Procs :
        /\ frame[t].op = "create_or_get_chroma_collection"
        /\ frame[t].pc = "done"
        /\ frame[t].ticket_count = <<0>>

\* C10: under every interleaving of two first calls of
\* create_or_get_chroma_collection that both observe count 0, the collection
\* never holds two entries of one id, and once both calls have ended it is
\* the collection of a single pass: one entry per ticket id, none lost.
C10_DoubleIndexingIsIdempotent ==
    /\ NoDuplicateIds(collection)
    /\ (BothFirstCallers /\ \E t \in Procs : frame[t].upserts > 0) =>
           /\ {collection[i].id : i \in DOMAIN collection} = TicketIds
           /\ Len(collection) = Cardinality(TicketIds)
           /\ collection = SinglePass
    /\ (BothFirstCallers /\ \A t \in Procs : frame[t].upserts = 0) =>
           collection = <<>>

\* C10 witness: both threads observed count 0 and both wrote their batch
C10_Witness ==
    /\ BothFirstCallers
    /\ \A t \in Procs : frame[t].upserts = 1
    /\ Len(collection) >= 2

\* the places where an exception makes index_all_tickets raise
IndexingSites == {"load", "embed", "upsert"}

\* thread t's call has left index_all_tickets
AfterIndexing(t) ==
    frame[t].passes = 1 /\ frame[t].pc \in {"query", "retrieved", "generate", "done"}

\* C11 as stated: index_all_tickets raises only when the batch upsert
\* raised; a failure of ticket loading or of embedding generation does not
\* make it raise.
C11_RaisesOnlyOnUpsertFailure ==
    \A t \in Procs :
        frame[t].index_raised =>
            /\ "upsert" \in frame[t].caught
            /\ "load" \notin frame[t].caught
            /\ "embed" \notin frame[t].caught

\* C11 amended: index_all_tickets raises exactly when load_all_tickets
\* raised, get_embeddings raised or the batch upsert raised.  A failure of one
\* ticket's document construction is caught per ticket and does not raise by
\* itself, and an empty ticket list is a return, not a raise.
C11_RaisesOnLoadEmbedOrUpsertFailure ==
    \A t \in Procs :
        /\ frame[t].index_raised => frame[t].passes = 1
        /\ AfterIndexing(t) =>
               (frame[t].index_raised <=> frame[t].caught \cap IndexingSites # {})
        /\ (AfterIndexing(t) /\ source = JsonFile(<<>>)) => ~frame[t].index_raised

\* C11 witness: the pass ended by load_all_tickets raising, with no upsert attempted
C11_Witness ==
    /\ AfterIndexing(1)
    /\ frame[1].index_raised
    /\ frame[1].caught = {"load"}
    /\ frame[1].upserts = 0

(* ------------------------- properties of the loader -------------------- *)

\* the entries of the ticket file when it parses to a list, else none
SourceEntries ==
    IF source.kind = "json" /\ source.json.type = "list" THEN source.json.val ELSE <<>>

SourceIsList == source.kind = "json" /\ source.json.type = "list"

\* the validation rule as documented: a mapping whose id, subject and body
\* are present and non-empty after string coercion and trimming
NonEmptyField(entry, field) ==
    /\ field \in DOMAIN entry.val
    /\ entry.val[field].type # "NoneType"
    /\ \E i \in DOMAIN Str(entry.val[field]) : ~IsSpace(Str(entry.val[field])[i])

IsValidEntry(entry) ==
    /\ entry.type = "dict"
    /\ \A field \in {"id", "subject", "body"} : NonEmptyField(entry, field)

Ended(t, op) == frame[t].pc = "done" /\ frame[t].op = op

\* C12 as stated: a list with zero valid tickets, be it empty or made of
\* invalid entries only, makes load_all_tickets raise ValueError.
C12_ZeroValidTicketsRaises ==
    \A t \in Procs :
        (/\ Ended(t, "load_all_tickets")
         /\ SourceIsList
         /\ \A i \in DOMAIN SourceEntries : ~IsValidEntry(SourceEntries[i]))
        => frame[t].exception = "ValueError"

\* C12 amended: a non-empty list whose entries all fail validation makes
\* load_all_tickets raise ValueError; an empty list makes it return the empty
\* sequence without raising.
C12_AllInvalidRaisesEmptyListReturns ==
    \A t \in Procs :
        (Ended(t, "load_all_tickets") /\ SourceIsList) =>
            /\ (/\ SourceEntries # <<>>
                /\ \A i \in DOMAIN SourceEntries : ~IsValidEntry(SourceEntries[i]))
               => (frame[t].escaped /\ frame[t].exception = "ValueError")
            /\ SourceEntries = <<>>
               => (~frame[t].escaped /\ frame[t].result = PyList(<<>>))

\* C12 witness: load_all_tickets has raised ValueError on a list of two invalid entries
C12_Witness ==
    /\ Ended(1, "load_all_tickets")
    /\ SourceIsList
    /\ Len(SourceEntries) = 2
    /\ \A i \in DOMAIN SourceEntries : ~IsValidEntry(SourceEntries[i])
    /\ frame[1].exception = "ValueError"

\* C13: when at least one entry is valid, load_all_tickets returns exactly
\* the valid entries in source order; no valid entry, such as one whose id is
\* the number 0, is dropped.
C13_ReturnsExactlyTheValidEntries ==
    \A t \in Procs :
        (/\ Ended(t, "load_all_tickets")
         /\ \E i \in DOMAIN SourceEntries : IsValidEntry(SourceEntries[i]))
        => /\ ~frame[t].escaped
           /\ frame[t].result = PyList(SelectSeq(SourceEntries, IsValidEntry))

\* the sum of the counts of a histogram
RECURSIVE SumOfCounts(_)
SumOfCounts(counts) ==
    IF DOMAIN counts = {} THEN 0
    ELSE LET key == CHOOSE x \in DOMAIN counts : TRUE
         IN  counts[key] + SumOfCounts([x \in DOMAIN counts \ {key} |-> counts[x]])

\* C15: get_ticket_stats never raises; when loading succeeds its total is the
\* number of tickets load_all_tickets returns and the status counts and the
\* priority counts each sum to that total; when loading fails it returns an
\* error descriptor.
C15_StatsAreConsistentWithLoad ==
    \A t \in Procs :
        Ended(t, "get_ticket_stats") =>
            LET loaded == load_all_tickets(source)
                stats == frame[t].result.val
            IN  /\ ~frame[t].escaped
                /\ loaded.raised # "" => "error" \in DOMAIN stats
                /\ loaded.raised = "" =>
                      /\ "total_tickets" \in DOMAIN stats
                      /\ stats.total_tickets = Len(loaded.value)
                      /\ SumOfCounts(stats.status_breakdown) = Len(loaded.value)
                      /\ SumOfCounts(stats.priority_breakdown) = Len(loaded.value)

\* C16: for every integer n, get_ticket_sample(n) never raises and returns
\* the first min(n, count) valid tickets in source order (none when that
\* number is not positive), and the empty sequence when loading fails.
C16_SampleIsThePrefix ==
    \A t \in Procs :
        Ended(t, "get_ticket_sample") =>
            LET loaded == load_all_tickets(source)
                n == frame[t].k_arg
            IN  /\ ~frame[t].escaped
                /\ loaded.raised # "" => frame[t].result = PyList(<<>>)
                /\ loaded.raised = "" =>
                      frame[t].result =
                          PyList([i \in 1..Max(0, Min(n, Len(loaded.value))) |-> loaded.value[i]])

(* ------------------- properties of the embedding step ------------------ *)

EmbeddingOps == {"get_embeddings", "get_query_embedding"}

\* C14 as stated: across any sequence of calls of get_embeddings and
\* get_query_embedding, failed constructions included, the constructor of the
\* embedding model is invoked at most once.
C14_ConstructorInvokedAtMostOnce == Len(constructor_calls) <= 1

\* C14 amended: the constructor succeeds at most once and is never invoked
\* after it has succeeded, every later call reusing the cached handle; a
\* failed construction caches nothing, so the next call that needs the model
\* invokes the constructor again; one call invokes it at most once.
C14_ConstructorSucceedsAtMostOnce ==
    /\ \A i \in DOMAIN constructor_calls :
          constructor_calls[i] = "loaded" => i = Len(constructor_calls)
    /\ model_cache # "None" <=>
          (constructor_calls # <<>> /\ constructor_calls[Len(constructor_calls)] = "loaded")
    /\ \A t \in Procs :
          (frame[t].pc = "done" /\ frame[t].op \in EmbeddingOps) =>
              /\ Len(constructor_calls) <= Len(frame[t].calls_before) + 1
              /\ (frame[t].calls_before # <<>>
                  /\ frame[t].calls_before[Len(frame[t].calls_before)] = "loaded")
                 => constructor_calls = frame[t].calls_before

\* C14 witness: after a failed and then a successful construction a call of
\* get_embeddings returned vectors without a further construction
C14_Witness ==
    /\ Ended(1, "get_embeddings")
    /\ ~frame[1].escaped
    /\ frame[1].result # PyList(<<>>)
    /\ frame[1].calls_before = <<"failed", "loaded">>
    /\ constructor_calls = <<"failed", "loaded">>

\* the subject and body of a ticket as get_embeddings reads them
FieldText(ticket, field) == Str(Get(ticket.val, field, PyStr(<<>>)))

\* the subject or the body holds a character that is not whitespace
NonBlank(ticket) == HasText(FieldText(ticket, "subject")) \/ HasText(FieldText(ticket, "body"))

\* C17: get_embeddings returns the empty sequence for an empty input and
\* when every ticket's subject+body text trims to empty, without raising;
\* when it returns, it returns one vector per ticket with a non-empty combined
\* text, in input order, the other tickets being skipped.
C17_OneVectorPerNonBlankTicket ==
    \A t \in Procs :
        Ended(t, "get_embeddings") =>
            LET kept == SelectSeq(frame[t].tickets, NonBlank)
            IN  /\ kept = <<>> => (~frame[t].escaped /\ frame[t].result = PyList(<<>>))
                /\ ~frame[t].escaped =>
                      /\ frame[t].result.type = "list"
                      /\ Len(frame[t].result.val) = Len(kept)
                      /\ \A i \in DOMAIN kept :
                            frame[t].result.val[i] =
                                Encode(strip(FieldText(kept[i], "subject") \o <<"\n", "\n">>
                                             \o FieldText(kept[i], "body")))

\* C17 witness: a blank ticket before a non-blank one, and one vector returned
C17_Witness ==
    /\ Ended(1, "get_embeddings")
    /\ ~frame[1].escaped
    /\ Len(frame[1].tickets) = 2
    /\ ~NonBlank(frame[1].tickets[1])
    /\ NonBlank(frame[1].tickets[2])
    /\ Len(frame[1].result.val) = 1

(* ----------------------- properties of the prompt ---------------------- *)

BlockLabels == {"Case: ", "Description: ", "Resolution: ", "Relevance: "}

IsBlockLine(line) == line # <<>> /\ line[1] \in BlockLabels

\* line holds text as a run of consecutive characters
Contains(line, text) ==
    \E i \in 0..(Len(line) - Len(text)) : SubSeq(line, i + 1, i + Len(text)) = text

\* the four labelled lines expected for a ticket
ExpectedLine(ticket, kind) ==
    CASE kind = 1 -> <<"Case: ">> \o Str(ticket.ticket_subject)
      [] kind = 2 -> <<"Description: ">>
                     \o [i \in 1..Min(Len(ticket.snippet), 200) |-> ticket.snippet[i]]
                     \o (IF Len(ticket.snippet) > 200 THEN <<"...">> ELSE <<>>)
      [] kind = 3 -> <<"Resolution: ">> \o Str(ticket.ticket_resolution)
      [] kind = 4 -> <<"Relevance: ">> \o IntStr(ticket.score * 10) \o <<".0%">>

\* C18: for a non-empty ticket list build_rag_prompt emits exactly one
\* Case/Description/Resolution/Relevance block per ticket, in input order,
\* the description being the first 200 characters of the snippet followed by
\* "..." exactly when the snippet is longer than 200; for an empty list the
\* prompt holds the literal query and no "Relevant Support Cases" section.
C18_OneBlockPerTicket ==
    \A t \in Procs :
        Ended(t, "build_rag_prompt") =>
            LET tickets == frame[t].top_k_tickets
                prompt == frame[t].result.lines
                labelled == SelectSeq(prompt, IsBlockLine)
            IN  /\ Len(labelled) = 4 * Len(tickets)
                /\ \A i \in DOMAIN tickets : \A kind \in 1..4 :
                      labelled[4 * (i - 1) + kind] = ExpectedLine(tickets[i], kind)
                /\ \E i \in DOMAIN prompt : Contains(prompt[i], frame[t].query)
                /\ tickets = <<>> =>
                      \A i \in DOMAIN prompt :
                          ~Contains(prompt[i], <<"## Relevant Support Cases:">>)

\* C18 witness: a prompt over a snippet of exactly 200 characters and one of 201
C18_Witness ==
    /\ Ended(1, "build_rag_prompt")
    /\ Len(frame[1].top_k_tickets) = 2
    /\ Len(frame[1].top_k_tickets[1].snippet) = 200
    /\ Len(frame[1].top_k_tickets[2].snippet) = 201
    /\ HasText(frame[1].query)

(* --------------------------- properties: retries ----------------------- *)

\* C19: within one resolve_query call the k-NN query is issued at most once
\* and the generative model is invoked at most once; a failure of the query
\* is converted at once into the empty retrieval and the no-tickets text, a
\* failure of the generation into the error text, with no second attempt.
C19_NoRetries ==
    \A t \in Procs :
        frame[t].op = "resolve_query" =>
            /\ Len(frame[t].n_results) <= 1
            /\ frame[t].gen_calls <= 1
            /\ "query" \in frame[t].caught =>
                  /\ Len(frame[t].n_results) = 1
                  /\ frame[t].gen_calls = 0
                  /\ frame[t].pc \in {"retrieved", "done"}
                  /\ frame[t].top_k_tickets = <<>>
                  /\ frame[t].pc = "done" => frame[t].result = PyStr(NO_TICKETS_MSG)
            /\ "generate" \in frame[t].caught =>
                  /\ frame[t].gen_calls = 1
                  /\ frame[t].pc = "done"
                  /\ frame[t].result.type = "str"

\* C19 witness: the one generation attempt of a call failed and the call ended
C19_Witness ==
    /\ ResolveQueryEnded(1)
    /\ "generate" \in frame[1].caught
    /\ frame[1].gen_calls = 1
    /\ Len(frame[1].n_results) = 1

(* ------------------------ properties: hit formatting ------------------- *)

\* the places of the well-formed hits of a k-NN answer, and the k-th of them
GoodPlaces(results) ==
    {i \in DOMAIN results.metadatas[1] : results.metadatas[1][i].type = "dict"}

NthGoodPlace(results, k) ==
    CHOOSE i \in GoodPlaces(results) :
        Cardinality({j \in GoodPlaces(results) : j < i}) = k - 1

\* the tuple expected for the hit at place i
ExpectedHit(results, i) ==
    LET metadata == results.metadatas[1][i].val
        distance == results.distances[1][i]
    IN  [ticket_id |-> IF "ticketId" \in DOMAIN metadata THEN metadata.ticketId
                       ELSE PyStr(<<"unknown">>),
         ticket_subject |-> IF "ticketSubject" \in DOMAIN metadata
                            THEN metadata.ticketSubject ELSE PyStr(<<"No subject">>),
         snippet |-> results.documents[1][i],
         ticket_resolution |-> IF "ticketResolution" \in DOMAIN metadata
                               THEN metadata.ticketResolution
                               ELSE PyStr(<<"No resolution available">>),
         score |-> IF distance >= Scale THEN 0 ELSE Scale - distance]

\* C20: a malformed hit is skipped without aborting the batch: the list
\* query_top_k_tickets returns is exactly the well-formed hits, in the order
\* of the index, each with the defaults "unknown", "No subject" and
\* "No resolution available" for the metadata fields it lacks.
C20_MalformedHitsAreSkipped ==
    \A t \in Procs :
        "metadatas" \in DOMAIN frame[t].results =>
            LET results == frame[t].results
                tickets == frame[t].top_k_tickets
            IN  /\ Len(tickets) = Cardinality(GoodPlaces(results))
                /\ \A k \in DOMAIN tickets :
                      tickets[k] = ExpectedHit(results, NthGoodPlace(results, k))
                /\ frame[t].op = "query_top_k_tickets" =>
                      (frame[t].pc = "done" /\ frame[t].result = PyList(tickets))

\* C20 witness: the first hit has no metadata, the second lacks the id and
\* the resolution, and every hit but the first is returned
C20_Witness ==
    /\ frame[1].op = "query_top_k_tickets"
    /\ frame[1].pc = "done"
    /\ "metadatas" \in DOMAIN frame[1].results
    /\ Len(frame[1].results.ids[1]) >= 3
    /\ GoodPlaces(frame[1].results) = DOMAIN frame[1].results.ids[1] \ {1}
    /\ "ticketId" \notin DOMAIN frame[1].results.metadatas[1][2].val
    /\ Len(frame[1].top_k_tickets) = Len(frame[1].results.ids[1]) - 1
    /\ frame[1].top_k_tickets[1].ticket_id = PyStr(<<"unknown">>)
    /\ frame[1].top_k_tickets[1].ticket_resolution = PyStr(<<"No resolution available">>)

(* --------------------------- properties: scores ------------------------ *)

\* the distance of the hit the k-th returned ticket was made from
DistanceOf(results, k) == results.distances[1][NthGoodPlace(results, k)]

\* C21: every score query_top_k_tickets returns is max(0, 1 - distance) of
\* its hit: never negative, 1 - distance when the distance is at most 1, 0
\* when it is at least 1, and within [0, 1] for a distance within [0, 2]
\* (distances and scores in tenths, 1.0 being Scale).
C21_ScoreIsClampedComplement ==
    \A t \in Procs :
        "metadatas" \in DOMAIN frame[t].results =>
            \A k \in DOMAIN frame[t].top_k_tickets :
                LET distance == DistanceOf(frame[t].results, k)
                    score == frame[t].top_k_tickets[k].score
                IN  /\ score >= 0
                    /\ distance <= Scale => score = Scale - distance
                    /\ distance >= Scale => score = 0
                    /\ (distance >= 0 /\ distance <= 2 * Scale) => score \in 0..Scale

\* C21 witness: a returned list whose first hit lies at distance 1 and whose
\* second lies beyond it, both with score 0
C21_Witness ==
    /\ frame[1].op = "query_top_k_tickets"
    /\ frame[1].pc = "done"
    /\ "metadatas" \in DOMAIN frame[1].results
    /\ Len(frame[1].top_k_tickets) >= 2
    /\ DistanceOf(frame[1].results, 1) = Scale
    /\ DistanceOf(frame[1].results, 2) > Scale
    /\ frame[1].top_k_tickets[1].score = 0
    /\ frame[1].top_k_tickets[2].score = 0

(* ----------------------- properties: batch alignment ------------------- *)

\* C22: in every batch upsert of index_all_tickets the ids, documents,
\* metadatas and embeddings have one length and are aligned: position i holds
\* the id, the document and the metadata of the i-th loaded ticket and the
\* embedding computed from that ticket's subject and body; no ticket is
\* skipped by one of the two steps and kept by the other.
C22_BatchIsAligned ==
    \A t \in Procs :
        frame[t].batch # <<>> =>
            LET tickets == frame[t].tickets
                batch == frame[t].batch
                embeddings == frame[t].embeddings
            IN  /\ Len(batch) = Len(tickets)
                /\ Len(embeddings) = Len(tickets)
                /\ \A i \in DOMAIN tickets :
                      /\ batch[i].id = Str(tickets[i].val.id)
                      /\ batch[i].metadata.ticketId = PyStr(batch[i].id)
                      /\ batch[i].metadata.ticketSubject = tickets[i].val.subject
                      /\ batch[i].document =
                            FieldText(tickets[i], "subject") \o <<"\n", "\n">>
                                \o FieldText(tickets[i], "body")
                      /\ embeddings[i] = Encode(strip(batch[i].document))

\* C22 witness: a file with an invalid entry between two valid tickets was
\* indexed in one accepted batch of two entries
C22_Witness ==
    /\ source.kind = "json"
    /\ source.json.type = "list"
    /\ Len(source.json.val) = 3
    /\ frame[1].upserts = 1
    /\ Len(frame[1].batch) = 2
    /\ Len(frame[1].embeddings) = 2
    /\ Len(collection) = 2

(* ---------------------- properties: failed population ------------------ *)

\* C23: a population attempt that fails or writes nothing (loading,
\* embedding or the upsert fails, or the ticket list is empty) leaves the
\* collection empty, and every call of create_or_get_chroma_collection that
\* counts 0 entries attempts the population again; an attempt in which
\* nothing fails over a non-empty ticket list populates the collection;
\* between calls the collection is empty or holds every loaded ticket, never
\* a part of them.
C23_FailedPopulationIsRetried ==
    /\ (\A t \in Procs : frame[t].pc = "idle") =>
          (collection = <<>> \/ collection = SinglePass)
    /\ \A t \in Procs :
          /\ frame[t].ticket_count = <<0>> => frame[t].passes = 1
          /\ (AfterIndexing(t) /\ frame[t].upserts = 0) => collection = <<>>
          /\ (AfterIndexing(t) /\ frame[t].index_raised) => frame[t].upserts = 0
          /\ (AfterIndexing(t) /\ frame[t].upserts = 1) =>
                /\ Len(frame[t].batch) = Len(frame[t].tickets)
                /\ collection = upsert(<<>>, frame[t].batch, frame[t].embeddings)
          /\ (/\ AfterIndexing(t)
              /\ frame[t].caught \cap (IndexingSites \cup {"document"}) = {}
              /\ source # JsonFile(<<>>))
             => (frame[t].upserts = 1 /\ collection # <<>>)

\* C23 witness: an earlier attempt failed in the embedding step, the
\* collection stayed empty, and this call populated it
C23_Witness ==
    /\ constructor_calls = <<"failed", "loaded">>
    /\ AfterIndexing(1)
    /\ frame[1].before = <<>>
    /\ frame[1].ticket_count = <<0>>
    /\ frame[1].upserts = 1
    /\ collection # <<>>

====
